---- MODULE Spec2Model ----
(***************************************************************************)
(* YukarinetteXSOOverlayBridge: the message stabilizer                     *)
(* (modules/translation_logger.py, TranslationLogger), the session         *)
(* controller and streaming client (modules/yukacone_client.py,            *)
(* YukaconeClient), the outbound client (modules/xso_client.py,            *)
(* XSOClient), the media key router (modules/media_controller.py,          *)
(* MediaKeyController) and the application's setup and cleanup (main.py).  *)
(*                                                                         *)
(* Python's None is the empty tuple <<>> and a value x is <<x>>, so that   *)
(* "is None" is a comparison TLC can make for every field.                 *)
(***************************************************************************)
EXTENDS Integers, Sequences, FiniteSets, TLC

\* ------------------------------------------------------------------ bounds
\* Well-formed records accepted by the stabilizer in one behaviour.
MaxIngest == 2
\* The clock (time.time()) runs 0..MaxTime.
MaxTime == 2
\* stable_sec of the stabilizer under check, in clock ticks (a constructor
\* parameter: translation_logger.py:28, main.py:139).
StableSec == 1
\* Failed appends to the log file in one behaviour.
MaxWriteErrors == 1

None == <<>>
Some(x) == <<x>>
Last(s) == s[Len(s)]

VARIABLES
  \* TranslationLogger
  current_id,        \* self.current_id
  last_data,         \* self.last_data
  last_update_time,  \* self.last_update_time
  tl_stop,           \* self._stop
  tl_thread,         \* self._thread and the position of _periodic_flush_loop
  stop_pc,           \* position of a stop() call: "idle" | "join"
  ing,               \* the add_yukacone_message call that has read the clock
                     \* and waits for the lock: None or <<[msg, now]>>
  clock,             \* time.time()
  log_file,          \* lines appended to translation-*.log
  log_errors,        \* failed appends (logging.error in _flush_locked)
  logged,            \* calls of on_message_logged: the record handed over and
                     \* the current_id the observer could read at that moment
  n_ingest,          \* well-formed records taken so far (bounds the model)
  frame_dropped,     \* whether the last frame delivered was discarded
  ref                \* the runs of consecutive same-id ingests, kept beside
                     \* the code's state (history, read by the properties only)

tlvars == <<current_id, last_data, last_update_time, tl_stop, tl_thread,
            stop_pc, ing, clock, log_file, log_errors, logged, n_ingest,
            frame_dropped, ref>>

VARIABLES
  translation_profiles,       \* self.translation_profiles: each profile is
                              \* its recognition_language
  current_profile_index,      \* self.current_profile_index
  is_muted,                   \* self.is_muted
  last_recognition_language,  \* self.last_recognition_language
  call,                       \* per calling thread: the call that has passed
                              \* its unlocked part and waits for self._lock
  last_op,                    \* what the call that returned last did: control
                              \* calls with their outcomes, observer calls,
                              \* return value
  streak                      \* nextProfile calls in a row since index 0

ycvars == <<translation_profiles, current_profile_index, is_muted,
            last_recognition_language, call, last_op, streak>>

VARIABLES
  \* YukaconeClient._lock, for the operations followed statement by statement
  lock,              \* self._lock: None or <<the thread that holds it>>
  body               \* per calling thread: its position inside the with block

lkvars == <<lock, body>>

VARIABLES
  \* XSOClient and YukaconeClient, the reconnecting WebSocket side
  ws,                \* per client: _is_running, _reconnect_attempts,
                     \* _is_connected, the position of _ws_connect_loop, the
                     \* delay it sleeps and whether that delay has elapsed;
                     \* delays, reopened: history, read by the properties only
  old_loop,          \* per client: the loop thread of an earlier connect()
                     \* that is still alive, its position, delay and sleep
  sent,              \* frames written to the XSOverlay socket (_ws.send)
  last_send          \* the send operation that returned last and its result

wsvars == <<ws, old_loop, sent, last_send>>

VARIABLES
  \* MediaKeyController
  mk_running,        \* self._is_running
  key_event,               \* the key event being handled: None or <<its record>>
  last_key           \* the key event handled last: what its handler called

mkvars == <<mk_running, key_event, last_key>>

VARIABLES
  \* YncneoXSOBridge
  app_pc,            \* position of main(): setup_clients, ..., cleanup
  stop_order         \* components in the order cleanup stopped them (history)

appvars == <<app_pc, stop_order>>

\* What the stabilizer's, the session controller's operations leave alone.
nontl == <<ycvars, lkvars, wsvars, mkvars, appvars>>
nonyc == <<tlvars, lkvars, wsvars, mkvars, appvars>>

\* ------------------------------------------------------------ inbound data
Entry1 == [Lang |-> "ja", Text |-> "P1"]
Entry2 == [Lang |-> "en", Text |-> "T"]
EntryNoText == [Lang |-> "ja"]

\* A decoded JSON object; MessageID is None when the key is missing or null,
\* textList is empty when the key is missing, null or an empty list.
Object(id, text_list) ==
  [kind |-> "object", data |-> [MessageID |-> id, textList |-> text_list]]

\* The frames with two entries or more and an id: two payloads for id "a"
\* (the second from a three-entry list whose first entry has no Text key),
\* one for id "b".
WellFormedFrames ==
  {Object(Some("a"), <<Entry1, Entry2>>),
   Object(Some("a"), <<EntryNoText, Entry2, Entry2>>),
   Object(Some("b"), <<Entry1, Entry2>>)}

\* A WebSocket text frame: not JSON at all, JSON that is no object, an object
\* without id, without entries, with one entry, or a well-formed one.
Messages ==
  {[kind |-> "garbage"], [kind |-> "scalar"],
   Object(None, <<Entry1, Entry2>>),
   Object(Some("a"), <<>>),
   Object(Some("b"), <<Entry1>>)}
    \cup WellFormedFrames

\* dict.get(key, default)
Get(d, key, default) == IF key \in DOMAIN d THEN d[key] ELSE default

\* _convert_to_internal_format with the two-entry test dropped: a missing
\* second entry is padded with empty strings.
ConvertPadded(data) ==
  IF data.MessageID = None THEN None
  ELSE IF Len(data.textList) < 1 THEN None
  ELSE Some([MsgID |-> data.MessageID,
             Lang1 |-> Get(data.textList[1], "Lang", ""),
             Text1 |-> Get(data.textList[1], "Text", ""),
             Lang2 |-> IF Len(data.textList) >= 2
                       THEN Get(data.textList[2], "Lang", "") ELSE "",
             Text2 |-> IF Len(data.textList) >= 2
                       THEN Get(data.textList[2], "Text", "") ELSE ""])

\* TranslationLogger._convert_to_internal_format
ConvertToInternalFormat(data) ==
  IF data.MessageID = None THEN None
  ELSE IF Len(data.textList) < 2 THEN None
  ELSE Some([MsgID |-> data.MessageID,
             Lang1 |-> Get(data.textList[1], "Lang", ""),
             Text1 |-> Get(data.textList[1], "Text", ""),
             Lang2 |-> Get(data.textList[2], "Lang", ""),
             Text2 |-> Get(data.textList[2], "Text", "")])

\* ------------------------------------------------- stabilizer, under _lock
\* The fields _flush_locked and _add_message_internal read and write.
TL ==
  [current_id |-> current_id, last_data |-> last_data,
   last_update_time |-> last_update_time, log_file |-> log_file,
   log_errors |-> log_errors, logged |-> logged]

\* The line _flush_locked formats, lang1:text1,lang2:text2, without its
\* leading wall-clock timestamp (datetime.now(), read by no property).
LogLine(d) ==
  <<Get(d, "Lang1", ""), Get(d, "Text1", ""), Get(d, "Lang2", ""), Get(d, "Text2", "")>>

\* What the two try blocks of a flush can meet: wr_ok, the append to the
\* file succeeds; obs_ok, the observer returns without raising.
AllFlushOutcomes == [wr_ok : BOOLEAN, obs_ok : BOOLEAN]

\* _flush_locked: the line is appended to the file; a failure of the append
\* is caught and logged.
AppendLine(s, outcome) ==
  [s EXCEPT !.log_file = IF outcome.wr_ok THEN Append(@, LogLine(s.last_data[1]))
                         ELSE @,
            !.log_errors = IF outcome.wr_ok THEN @ ELSE @ + 1]

\* _flush_locked: self.on_message_logged(self.last_data); an exception it
\* raises (obs_ok false) is caught and logged. Beside the record, what the
\* observer could read at that moment: current_id, and how many appends to
\* the file had been attempted.
CallObserver(s, outcome) ==
  [s EXCEPT !.logged = Append(@, [data |-> s.last_data[1],
                                  seen_id |-> s.current_id,
                                  seen_appends |-> Len(s.log_file) + s.log_errors])]

\* The reset that leaves the time of the last update.
ClearPendingKeepsTime(s) ==
  [s EXCEPT !.current_id = None, !.last_data = None]

\* _flush_locked: the pending state is reset.
ClearPending(s) ==
  [s EXCEPT !.current_id = None, !.last_data = None, !.last_update_time = None]

\* The flush that emits the pending message and keeps it pending.
FlushLockedKeepsPending(s, outcome) ==
  IF s.last_data = None THEN s
  ELSE CallObserver(AppendLine(s, outcome), outcome)

\* The flush that writes an empty line when nothing is pending.
FlushLockedEmptyLine(s, outcome) ==
  IF s.last_data = None
  THEN [s EXCEPT !.log_file = Append(@, <<"", "", "", "">>)]
  ELSE ClearPending(CallObserver(AppendLine(s, outcome), outcome))

\* The flush that calls the observer before it appends the line.
FlushLockedObserverFirst(s, outcome) ==
  IF s.last_data = None THEN s
  ELSE ClearPending(AppendLine(CallObserver(s, outcome), outcome))

\* The flush that an exception of the observer ends before the reset.
FlushLockedAbortOnRaise(s, outcome) ==
  IF s.last_data = None THEN s
  ELSE IF outcome.obs_ok
       THEN ClearPending(CallObserver(AppendLine(s, outcome), outcome))
       ELSE CallObserver(AppendLine(s, outcome), outcome)

\* TranslationLogger._flush_locked
FlushLocked(s, outcome) ==
  IF s.last_data = None THEN s
  ELSE ClearPending(CallObserver(AppendLine(s, outcome), outcome))

\* TranslationLogger.stop from its first line to its last, the checker
\* thread taking no step meanwhile; thread: self._thread ("none": None).
StopResult(s, thread, outcome) ==
  IF thread = "none" THEN s ELSE FlushLocked(s, outcome)

\* _add_message_internal, first message (current_id is None).
StartPending(s, msg, now) ==
  [s EXCEPT !.current_id = msg.MsgID, !.last_data = Some(msg),
            !.last_update_time = Some(now)]

\* The id switch without the flush of the old id.
SwitchIdNoFlush(s, msg, now, outcome) ==
  StartPending(s, msg, now)

\* The id switch that assigns the new id first and flushes afterwards.
SwitchIdFlushLast(s, msg, now, outcome) ==
  FlushLocked(StartPending(s, msg, now), outcome)

\* _add_message_internal, another id: flush the old one, then switch.
SwitchId(s, msg, now, outcome) ==
  StartPending(FlushLocked(s, outcome), msg, now)

\* The same-id update that replaces the payload and keeps the old time.
UpdateSameIdKeepTime(s, msg, now) ==
  [s EXCEPT !.last_data = Some(msg)]

\* The same-id update that keeps the first payload and only refreshes the time.
UpdateSameIdKeepFirst(s, msg, now) ==
  [s EXCEPT !.last_update_time = Some(now)]

\* _add_message_internal, same id: replace payload and timestamp.
UpdateSameId(s, msg, now) ==
  [s EXCEPT !.last_data = Some(msg), !.last_update_time = Some(now)]

\* TranslationLogger._add_message_internal, the part under the lock. now is
\* the time read before the lock was taken.
AddMessageInternal(s, msg, now, outcome) ==
  IF msg.MsgID = None THEN s
  ELSE IF s.current_id = None THEN StartPending(s, msg, now)
  ELSE IF msg.MsgID # s.current_id THEN SwitchId(s, msg, now, outcome)
  ELSE UpdateSameId(s, msg, now)

\* The stability test that flushes whatever is pending, whatever its age.
StabilityCheckNoWindow(s, now, outcome) ==
  IF s.current_id = None \/ s.last_update_time = None THEN s
  ELSE FlushLocked(s, outcome)

\* _periodic_flush_loop, the part under the lock.
StabilityCheck(s, now, outcome) ==
  IF s.current_id = None \/ s.last_update_time = None THEN s
  ELSE IF now - s.last_update_time[1] >= StableSec THEN FlushLocked(s, outcome)
  ELSE s

SetTL(s) ==
  /\ current_id' = s.current_id
  /\ last_data' = s.last_data
  /\ last_update_time' = s.last_update_time
  /\ log_file' = s.log_file
  /\ log_errors' = s.log_errors
  /\ logged' = s.logged

\* Whether the append may fail at this step.
WriteOutcomes ==
  {o \in AllFlushOutcomes : log_errors < MaxWriteErrors \/ o.wr_ok}

\* ---------------------------------------------------- runs (history only)
\* A run is a maximal sequence of consecutive ingest calls with the same id.
\* It is ended by an ingest with another id, by a stability check at least
\* StableSec after its last call, or by a forced flush.
RefInit ==
  [open |-> FALSE, id |-> None, last |-> 0, msg |-> None, varied |-> FALSE,
   ended |-> 0, prev_msg |-> None, prev_varied |-> FALSE, prev_end |-> "none"]

\* The open run ends, by cause "switch", "timeout" or "forced": it becomes
\* the previous run.
RefEnd(r, cause) ==
  [r EXCEPT !.open = FALSE, !.ended = @ + 1, !.prev_msg = r.msg,
            !.prev_varied = r.varied, !.prev_end = cause,
            !.msg = None, !.varied = FALSE]

\* msg: the payload of the open run's last call; varied: whether an earlier
\* call of the run carried another payload.
RefIngest(r, msg, now) ==
  IF r.open /\ r.id = msg.MsgID
  THEN [r EXCEPT !.last = now, !.msg = Some(msg),
                 !.varied = @ \/ r.msg # Some(msg)]
  ELSE [(IF r.open THEN RefEnd(r, "switch") ELSE r) EXCEPT
          !.open = TRUE, !.id = msg.MsgID, !.last = now,
          !.msg = Some(msg), !.varied = FALSE]

RefCheck(r, now) ==
  IF r.open /\ now - r.last >= StableSec THEN RefEnd(r, "timeout") ELSE r

RefForce(r) == IF r.open THEN RefEnd(r, "forced") ELSE r

\* ------------------------------------------------------------- operations
TLInit ==
  /\ current_id = None
  /\ last_data = None
  /\ last_update_time = None
  /\ tl_stop = FALSE
  /\ tl_thread = "none"
  /\ stop_pc = "idle"
  /\ ing = None
  /\ clock = 0
  /\ log_file = <<>>
  /\ log_errors = 0
  /\ logged = <<>>
  /\ n_ingest = 0
  /\ frame_dropped = FALSE
  /\ ref = RefInit

\* time passes
Tick ==
  /\ clock < MaxTime
  /\ clock' = clock + 1
  /\ UNCHANGED <<current_id, last_data, last_update_time, tl_stop, tl_thread,
                 stop_pc, ing, log_file, log_errors, logged, n_ingest, frame_dropped, ref>>
  /\ UNCHANGED nontl

\* TranslationLogger.start, on the stabilizer's own fields
StartCall ==
  /\ IF tl_thread # "none"
     THEN UNCHANGED <<tl_stop, tl_thread>>
     ELSE tl_stop' = FALSE /\ tl_thread' = "test"
  /\ UNCHANGED <<current_id, last_data, last_update_time, stop_pc, ing, clock,
                 log_file, log_errors, logged, n_ingest, frame_dropped, ref>>

\* TranslationLogger.start
Start == StartCall /\ UNCHANGED nontl

\* _periodic_flush_loop: while not self._stop
LoopTest ==
  /\ tl_thread = "test"
  /\ tl_thread' = IF tl_stop THEN "exited" ELSE "sleep"
  /\ UNCHANGED <<current_id, last_data, last_update_time, tl_stop, stop_pc, ing,
                 clock, log_file, log_errors, logged, n_ingest, frame_dropped, ref>>
  /\ UNCHANGED nontl

\* _periodic_flush_loop: the sleep is over, the check runs under the lock
PeriodicCheck ==
  /\ tl_thread = "sleep"
  /\ tl_thread' = "test"
  /\ \E outcome \in WriteOutcomes : SetTL(StabilityCheck(TL, clock, outcome))
  /\ ref' = RefCheck(ref, clock)
  /\ UNCHANGED <<tl_stop, stop_pc, ing, clock, n_ingest, frame_dropped>>
  /\ UNCHANGED nontl

\* YukaconeClient._on_ws_message -> TranslationLogger.add_yukacone_message, up
\* to the read of the clock in _add_message_internal. One thread delivers the
\* frames, so one call is under way at a time.
OnWsMessage(m) ==
  /\ ing = None
  /\ LET converted == IF m.kind = "object" THEN ConvertToInternalFormat(m.data)
                      ELSE None
     IN IF converted = None
        THEN /\ frame_dropped' = TRUE
             /\ UNCHANGED <<ing, n_ingest>>
        ELSE /\ n_ingest < MaxIngest
             /\ clock + StableSec <= MaxTime
             /\ ing' = Some([msg |-> converted[1], now |-> clock])
             /\ n_ingest' = n_ingest + 1
             /\ frame_dropped' = FALSE
  /\ UNCHANGED <<current_id, last_data, last_update_time, tl_stop, tl_thread,
                 stop_pc, clock, log_file, log_errors, logged, ref>>
  /\ UNCHANGED nontl

\* _add_message_internal: with self._lock
IngestApply ==
  /\ ing # None
  /\ \E outcome \in WriteOutcomes :
       SetTL(AddMessageInternal(TL, ing[1].msg, ing[1].now, outcome))
  /\ ref' = RefIngest(ref, ing[1].msg, ing[1].now)
  /\ ing' = None
  /\ UNCHANGED <<tl_stop, tl_thread, stop_pc, clock, n_ingest, frame_dropped>>
  /\ UNCHANGED nontl

\* TranslationLogger.flush_now
FlushNow ==
  /\ \E outcome \in WriteOutcomes : SetTL(FlushLocked(TL, outcome))
  /\ ref' = RefForce(ref)
  /\ UNCHANGED <<tl_stop, tl_thread, stop_pc, ing, clock, n_ingest, frame_dropped>>
  /\ UNCHANGED nontl

\* TranslationLogger.stop, up to the join, on the stabilizer's own fields
StopCall ==
  /\ stop_pc = "idle"
  /\ IF tl_thread = "none"
     THEN UNCHANGED <<tl_stop, stop_pc>>
     ELSE tl_stop' = TRUE /\ stop_pc' = "join"
  /\ UNCHANGED <<current_id, last_data, last_update_time, tl_thread, ing, clock,
                 log_file, log_errors, logged, n_ingest, frame_dropped, ref>>

\* TranslationLogger.stop, up to the join
StopRequest == StopCall /\ UNCHANGED nontl

\* TranslationLogger.stop, after the join: the loop has exited or the three
\* seconds are over; the pending message is flushed.
StopJoined ==
  /\ stop_pc = "join"
  /\ stop_pc' = "idle"
  /\ \E outcome \in WriteOutcomes : SetTL(FlushLocked(TL, outcome))
  /\ ref' = RefForce(ref)
  /\ UNCHANGED <<tl_stop, tl_thread, ing, clock, n_ingest, frame_dropped>>

StopFlush == StopJoined /\ UNCHANGED nontl

TLNext ==
  \/ Tick
  \/ Start
  \/ LoopTest
  \/ PeriodicCheck
  \/ \E m \in Messages : OnWsMessage(m)
  \/ IngestApply
  \/ FlushNow
  \/ StopRequest
  \/ StopFlush

\* ------------------------------------------------------- session controller
\* Profiles of one configuration, at most.
MaxProfiles == 3

\* The threads that call the controller: the key listener and the main thread.
Callers == {"listener", "main"}

Languages == {"ja", "en"}

RECURSIVE SeqsOfLen(_, _)
SeqsOfLen(S, n) ==
  IF n = 0 THEN {<<>>}
  ELSE {Append(q, x) : q \in SeqsOfLen(S, n - 1), x \in S}

\* The configured profile lists (config.json: translation_profiles, not empty,
\* main.initialize reads its first entry). The first profile's language is
\* "ja": the other lists are these with the two languages renamed.
ProfileLists ==
  {<<Some("ja")>> \o q :
     q \in UNION {SeqsOfLen({Some(l) : l \in Languages}, n) : n \in 0..(MaxProfiles - 1)}}

\* What a control request can end in: a success status, an error status
\* (raise_for_status), no answer (connection error, timeout).
ApiOutcomes == {"ok", "http_error", "timeout"}

\* YukaconeClient._call_api: True on success; a RequestException is logged
\* and turned into the return value False.
CallApi(outcome) == outcome = "ok"

\* Python's seq[i]: a negative index counts from the end.
IndexInRange(seq, i) ==
  \/ i >= 0 /\ i < Len(seq)
  \/ i < 0 /\ -i <= Len(seq)

PyItem(seq, i) == IF i >= 0 THEN seq[i + 1] ELSE seq[Len(seq) + i + 1]

\* No range test at all.
InvalidIndexNever(index, n) == FALSE

\* The range test without its lower bound.
InvalidIndexNoLower(index, n) == index >= n

\* set_translation_profile: index < 0 or index >= len(self.translation_profiles)
InvalidIndex(index, n) == index < 0 \/ index >= n

\* next_profile without the wraparound.
NextIndexNoWrap(index, n) == index + 1

\* next_profile: (self.current_profile_index + 1) % len(self.translation_profiles)
NextIndex(index, n) == (index + 1) % n

\* previous_profile: (self.current_profile_index - 1) % len(...); Python's %
\* takes the sign of the divisor, as TLA+'s does.
PreviousIndex(index, n) == (index - 1) % n

Session ==
  [current_profile_index |-> current_profile_index, is_muted |-> is_muted,
   last_recognition_language |-> last_recognition_language]

\* set_translation_profile, the part under self._lock. The value _call_api
\* returns is not read; the observer raising is caught by the except clause,
\* as is an IndexError of translation_profiles[index].
SetTranslationProfileLocked(s, profiles, index, rec_out, trans_out, obs_ok) ==
  IF ~IndexInRange(profiles, index)
  THEN [state |-> s, rec |-> "none", trans |-> "none", observer |-> 0, ret |-> FALSE]
  ELSE LET new_recognition_lang == PyItem(profiles, index)
           push == new_recognition_lang # s.last_recognition_language
           s1 == IF push
                 THEN [s EXCEPT !.last_recognition_language = new_recognition_lang]
                 ELSE s
       IN [state |-> [s1 EXCEPT !.current_profile_index = index],
           rec |-> IF push THEN rec_out ELSE "none",
           trans |-> trans_out,
           observer |-> 1,
           ret |-> obs_ok]

\* set_mute, the part under self._lock.
SetMuteLocked(s, muted, mute_out, obs_ok) ==
  [state |-> [s EXCEPT !.is_muted = muted],
   rec |-> "none", trans |-> mute_out, observer |-> 1, ret |-> obs_ok]

NoOp ==
  [op |-> "none", via |-> "none", arg |-> 0, read |-> None, rec |-> "none",
   trans |-> "none", observer |-> 0, ret |-> FALSE]

YCInitWith(profiles) ==
  /\ translation_profiles = profiles
  /\ current_profile_index = 0
  /\ is_muted = TRUE
  /\ last_recognition_language = None
  /\ call = [t \in Callers |-> None]
  /\ last_op = NoOp
  /\ streak = 0

Returned(c, r) ==
  [op |-> c.op, via |-> c.via, arg |-> c.arg, read |-> c.read, rec |-> r.rec,
   trans |-> r.trans, observer |-> r.observer, ret |-> r.ret]

\* nextProfile calls in a row (none of them overtaken by another call) that
\* started at index 0; 0 when the last call was anything else.
StreakAfter(c) ==
  IF c.via = "next" /\ c.read = Some(current_profile_index)
  THEN IF current_profile_index = 0 THEN 1
       ELSE IF streak > 0 THEN streak + 1 ELSE 0
  ELSE 0

\* set_translation_profile up to the lock: the range test.
EnterSetTranslationProfile(t, index, via, read) ==
  LET c == [op |-> "set_profile", via |-> via, arg |-> index, read |-> read]
  IN IF InvalidIndex(index, Len(translation_profiles))
     THEN /\ last_op' = Returned(c, [rec |-> "none", trans |-> "none",
                                     observer |-> 0, ret |-> FALSE])
          /\ streak' = 0
          /\ UNCHANGED call
     ELSE /\ call' = [call EXCEPT ![t] = Some(c)]
          /\ UNCHANGED <<last_op, streak>>

\* YukaconeClient.set_translation_profile(index), called directly
SetProfile(t, index) ==
  /\ call[t] = None
  /\ EnterSetTranslationProfile(t, index, "direct", None)
  /\ UNCHANGED <<translation_profiles, current_profile_index, is_muted,
                 last_recognition_language>>
  /\ UNCHANGED nonyc

\* YukaconeClient.next_profile
NextProfile(t) ==
  /\ call[t] = None
  /\ EnterSetTranslationProfile(
       t, NextIndex(current_profile_index, Len(translation_profiles)),
       "next", Some(current_profile_index))
  /\ UNCHANGED <<translation_profiles, current_profile_index, is_muted,
                 last_recognition_language>>
  /\ UNCHANGED nonyc

\* YukaconeClient.previous_profile
PreviousProfile(t) ==
  /\ call[t] = None
  /\ EnterSetTranslationProfile(
       t, PreviousIndex(current_profile_index, Len(translation_profiles)),
       "prev", Some(current_profile_index))
  /\ UNCHANGED <<translation_profiles, current_profile_index, is_muted,
                 last_recognition_language>>
  /\ UNCHANGED nonyc

\* YukaconeClient.set_mute(muted) up to the lock
SetMute(t, muted) ==
  /\ call[t] = None
  /\ call' = [call EXCEPT ![t] =
                Some([op |-> "set_mute", via |-> "direct", arg |-> muted, read |-> None])]
  /\ UNCHANGED <<translation_profiles, current_profile_index, is_muted,
                 last_recognition_language, last_op, streak>>
  /\ UNCHANGED nonyc

\* YukaconeClient.toggle_mute: reads is_muted, then calls set_mute
ToggleMute(t) ==
  /\ call[t] = None
  /\ call' = [call EXCEPT ![t] =
                Some([op |-> "set_mute", via |-> "toggle", arg |-> ~is_muted,
                      read |-> None])]
  /\ UNCHANGED <<translation_profiles, current_profile_index, is_muted,
                 last_recognition_language, last_op, streak>>
  /\ UNCHANGED nonyc

SetSession(s) ==
  /\ current_profile_index' = s.current_profile_index
  /\ is_muted' = s.is_muted
  /\ last_recognition_language' = s.last_recognition_language

\* set_translation_profile: with self._lock ... return
SetTranslationProfileBody(t) ==
  /\ call[t] # None
  /\ call[t][1].op = "set_profile"
  /\ \E rec_out \in ApiOutcomes, trans_out \in ApiOutcomes, obs_ok \in BOOLEAN :
       LET r == SetTranslationProfileLocked(Session, translation_profiles,
                                            call[t][1].arg, rec_out, trans_out, obs_ok)
       IN /\ SetSession(r.state)
          /\ last_op' = Returned(call[t][1], r)
  /\ streak' = StreakAfter(call[t][1])
  /\ call' = [call EXCEPT ![t] = None]
  /\ UNCHANGED translation_profiles
  /\ UNCHANGED nonyc

\* set_mute: with self._lock ... return
SetMuteBody(t) ==
  /\ call[t] # None
  /\ call[t][1].op = "set_mute"
  /\ \E mute_out \in ApiOutcomes, obs_ok \in BOOLEAN :
       LET r == SetMuteLocked(Session, call[t][1].arg, mute_out, obs_ok)
       IN /\ SetSession(r.state)
          /\ last_op' = Returned(call[t][1], r)
  /\ streak' = 0
  /\ call' = [call EXCEPT ![t] = None]
  /\ UNCHANGED translation_profiles
  /\ UNCHANGED nonyc

\* The calls of the threads in T, with any arguments.
YCNext(T) ==
  \/ \E t \in T, index \in -1..MaxProfiles : SetProfile(t, index)
  \/ \E t \in T : NextProfile(t)
  \/ \E t \in T : PreviousProfile(t)
  \/ \E t \in T, muted \in BOOLEAN : SetMute(t, muted)
  \/ \E t \in T : ToggleMute(t)
  \/ \E t \in T : SetTranslationProfileBody(t)
  \/ \E t \in T : SetMuteBody(t)

\* ------------------------------------- session controller, lock by lock
\* set_translation_profile and set_mute statement by statement, for callers
\* on several threads. body[t]: "out" (not inside the with block), "rec_call",
\* "trans_call", "mute_call" (inside, the named control request in flight).
LKInit ==
  /\ lock = None
  /\ body = [t \in Callers |-> "out"]

\* The lock that lets every thread in.
CanAcquireAlways(l) == TRUE

\* threading.Lock: with self._lock
CanAcquire(l) == l = None

\* The lock that stays held when the observer raised inside the with block.
LockAfterBodyHeldOnRaise(t, raised) == IF raised THEN Some(t) ELSE None

\* The end of "with self._lock:", reached by return True or, raised: after an
\* exception (the observer's, caught by except Exception), by return False.
LockAfterBody(t, raised) == None

\* The first control request of the call c under the lock.
\* The first call that is the recognition-language call whatever the language.
FirstCallAlwaysRec(c) ==
  IF c.op = "set_mute" THEN "mute_call" ELSE "rec_call"

FirstCall(c) ==
  IF c.op = "set_mute" THEN "mute_call"
  ELSE IF PyItem(translation_profiles, c.arg) # last_recognition_language
       THEN "rec_call"
       ELSE "trans_call"

\* with self._lock: ... up to the first _call_api
AcquireLock(t) ==
  /\ call[t] # None
  /\ body[t] = "out"
  /\ CanAcquire(lock)
  /\ lock' = Some(t)
  /\ body' = [body EXCEPT ![t] = FirstCall(call[t][1])]
  /\ UNCHANGED ycvars
  /\ UNCHANGED <<tlvars, wsvars, mkvars, appvars>>

\* set_translation_profile: _call_api("/setRecognitionParam") has returned
\* (its value is not read); self.last_recognition_language = ...
RecCallReturns(t) ==
  /\ body[t] = "rec_call"
  /\ last_recognition_language' = PyItem(translation_profiles, call[t][1].arg)
  /\ body' = [body EXCEPT ![t] = "trans_call"]
  /\ UNCHANGED <<translation_profiles, current_profile_index, is_muted, call,
                 last_op, streak, lock>>
  /\ UNCHANGED <<tlvars, wsvars, mkvars, appvars>>

\* set_translation_profile: _call_api("/setTranslationParam") has returned;
\* self.current_profile_index = index, the observer, the end of the with block
TransCallReturns(t) ==
  /\ body[t] = "trans_call"
  /\ current_profile_index' = call[t][1].arg
  /\ body' = [body EXCEPT ![t] = "out"]
  /\ \E raised \in BOOLEAN : lock' = LockAfterBody(t, raised)
  /\ call' = [call EXCEPT ![t] = None]
  /\ UNCHANGED <<translation_profiles, is_muted, last_recognition_language,
                 last_op, streak>>
  /\ UNCHANGED <<tlvars, wsvars, mkvars, appvars>>

\* set_mute: _call_api("/mute-on" or "/mute-off") has returned;
\* self.is_muted = muted, the observer, the end of the with block
MuteCallReturns(t) ==
  /\ body[t] = "mute_call"
  /\ is_muted' = call[t][1].arg
  /\ body' = [body EXCEPT ![t] = "out"]
  /\ \E raised \in BOOLEAN : lock' = LockAfterBody(t, raised)
  /\ call' = [call EXCEPT ![t] = None]
  /\ UNCHANGED <<translation_profiles, current_profile_index,
                 last_recognition_language, last_op, streak>>
  /\ UNCHANGED <<tlvars, wsvars, mkvars, appvars>>

\* The calls of the threads in T followed through the lock.
LockNext(T) ==
  \/ \E t \in T, index \in -1..MaxProfiles : SetProfile(t, index)
  \/ \E t \in T : NextProfile(t)
  \/ \E t \in T : PreviousProfile(t)
  \/ \E t \in T, muted \in BOOLEAN : SetMute(t, muted)
  \/ \E t \in T : ToggleMute(t)
  \/ \E t \in T : AcquireLock(t)
  \/ \E t \in T : RecCallReturns(t)
  \/ \E t \in T : TransCallReturns(t)
  \/ \E t \in T : MuteCallReturns(t)

\* ----------------------------------------------------- reconnecting clients
\* Connect failures in a row that the model follows.
MaxAttempts == 6
\* Frames written to the XSOverlay socket in one behaviour.
MaxSent == 2

Clients == {"xso", "yukacone"}

\* reconnect_delay, the default of both constructors (seconds).
ReconnectDelay == 3
\* max_reconnect_delay, the default of XSOClient.__init__.
XsoMaxReconnectDelay == 30
\* max_reconnect_delay, the default of YukaconeClient.__init__.
YukaconeMaxReconnectDelay == 60

MaxReconnectDelay(c) ==
  IF c = "xso" THEN XsoMaxReconnectDelay ELSE YukaconeMaxReconnectDelay

Min(a, b) == IF a <= b THEN a ELSE b

\* _ws_connect_loop: min(self.reconnect_delay * (2 ** self._reconnect_attempts),
\* self.max_reconnect_delay)
BackoffDelay(c, attempts) ==
  Min(ReconnectDelay * (2 ^ attempts), MaxReconnectDelay(c))

\* A client after __init__. thread: the position of _ws_connect_loop, "none"
\* before connect() started it. delays: the backoff delays begun since the
\* connection was opened last; reopened: _on_ws_open has run after a backoff
\* of max_reconnect_delay.
WsClientInit ==
  [is_running |-> FALSE, thread |-> "none", reconnect_attempts |-> 0,
   is_connected |-> FALSE, delay |-> 0, slept |-> FALSE,
   delays |-> <<>>, reopened |-> FALSE]

\* What a loop thread keeps to itself: its position, the delay it sleeps,
\* whether that delay has elapsed.
NoLoop == [thread |-> "none", delay |-> 0, slept |-> FALSE]

WSInit ==
  /\ ws = [c \in Clients |-> WsClientInit]
  /\ old_loop = [c \in Clients |-> NoLoop]
  /\ sent = 0
  /\ last_send = [op |-> "none", connected |-> FALSE, ret |-> FALSE]

nonws == <<tlvars, ycvars, lkvars, mkvars, appvars>>

\* The loop test that gives up after the first backoff.
LoopContinuesUntilBackoff(r) == r.is_running /\ r.reconnect_attempts = 0

\* _ws_connect_loop: while self._is_running
LoopContinues(r) == r.is_running

\* _on_ws_open that leaves the counter alone.
AttemptsAfterOpenKept(attempts) == attempts

\* _on_ws_open: self._reconnect_attempts = 0
AttemptsAfterOpen(attempts) == 0

\* Whether the loop can leave time.sleep(delay): the delay has elapsed. The
\* sleep reads no flag.
CanLeaveSleep(r) == r.slept

\* connect()
ConnectClient(r) ==
  IF r.is_running THEN r
  ELSE [r EXCEPT !.is_running = TRUE, !.thread = "test"]

\* disconnect(): the flag is cleared, the socket is asked to close, the join
\* gives up after three seconds.
DisconnectClient(r) == [r EXCEPT !.is_running = FALSE]

\* The assignment that also writes the attempts counter of the other client.
SetWsSharedAttempts(c, r) ==
  /\ ws' = [o \in Clients |->
             IF o = c THEN r
             ELSE [ws[o] EXCEPT !.reconnect_attempts = r.reconnect_attempts]]
  /\ UNCHANGED <<old_loop, sent, last_send>>
  /\ UNCHANGED nonws

SetWs(c, r) ==
  /\ ws' = [ws EXCEPT ![c] = r]
  /\ UNCHANGED <<old_loop, sent, last_send>>
  /\ UNCHANGED nonws

\* connect(), called when no loop thread of an earlier connect() is alive
Connect(c) ==
  /\ ws[c].thread \in {"none", "exited"} \/ ws[c].is_running
  /\ SetWs(c, ConnectClient(ws[c]))

\* disconnect()
Disconnect(c) == SetWs(c, DisconnectClient(ws[c]))

\* _ws_connect_loop: the while test
WsLoopTest(c) ==
  /\ ws[c].thread = "test"
  /\ SetWs(c, [ws[c] EXCEPT !.thread = IF LoopContinues(ws[c]) THEN "create"
                                        ELSE "exited"])

\* _ws_connect_loop: self._ws = WebSocketApp(...); self._ws.run_forever()
\* begins. No flag is read between the while test and this.
WsRunForever(c) ==
  /\ ws[c].thread = "create"
  /\ SetWs(c, [ws[c] EXCEPT !.thread = "connecting"])

\* _on_ws_open: the connection is established
WsOpen(c) ==
  /\ ws[c].thread = "connecting"
  /\ SetWs(c, [ws[c] EXCEPT
                 !.thread = "open",
                 !.is_connected = (c = "xso"),
                 !.reconnect_attempts = AttemptsAfterOpen(@),
                 !.reopened = @ \/ (/\ ws[c].delays # <<>>
                                     /\ Last(ws[c].delays) = MaxReconnectDelay(c)),
                 !.delays = <<>>])

\* run_forever() returns or raises without a connection (_on_ws_error)
WsConnectFails(c) ==
  /\ ws[c].thread = "connecting"
  /\ ws[c].reconnect_attempts < MaxAttempts
  /\ SetWs(c, [ws[c] EXCEPT !.thread = "ended", !.is_connected = FALSE])

\* the established connection ends: run_forever() returns after
\* _on_ws_close or _on_ws_error (callback), or raises into the except clause
\* of the loop before either has run
WsConnectionEnds(c) ==
  /\ ws[c].thread = "open"
  /\ \E callback \in BOOLEAN :
       SetWs(c, [ws[c] EXCEPT !.thread = "ended",
                              !.is_connected = IF callback THEN FALSE ELSE @])

\* The loop that leaves the connected flag to the callbacks.
ConnectedAfterRunForeverKept(connected) == connected

\* _ws_connect_loop after run_forever(): self._is_connected = False
\* (XSOClient; YukaconeClient keeps no such flag)
ConnectedAfterRunForever(connected) == FALSE

\* _ws_connect_loop after run_forever(): leave when stopped, else compute the
\* delay and go to sleep
WsAfterRunForever(c) ==
  /\ ws[c].thread = "ended"
  /\ SetWs(c, IF ~ws[c].is_running
              THEN [ws[c] EXCEPT !.thread = "exited",
                                 !.is_connected = ConnectedAfterRunForever(@)]
              ELSE LET delay == BackoffDelay(c, ws[c].reconnect_attempts)
                   IN [ws[c] EXCEPT !.thread = "sleep",
                                    !.is_connected = ConnectedAfterRunForever(@),
                                    !.delay = delay, !.slept = FALSE,
                                    !.delays = Append(@, delay)])

\* the delay of time.sleep(delay) elapses
BackoffElapses(c) ==
  /\ ws[c].thread = "sleep"
  /\ ~ws[c].slept
  /\ SetWs(c, [ws[c] EXCEPT !.slept = TRUE])

\* _ws_connect_loop: time.sleep(delay) returns; self._reconnect_attempts += 1
WsBackoffOver(c) ==
  /\ ws[c].thread = "sleep"
  /\ CanLeaveSleep(ws[c])
  /\ SetWs(c, [ws[c] EXCEPT !.thread = "test", !.slept = FALSE,
                            !.reconnect_attempts = @ + 1])

WsNext(c) ==
  \/ Connect(c)
  \/ Disconnect(c)
  \/ WsLoopTest(c)
  \/ WsRunForever(c)
  \/ WsOpen(c)
  \/ WsConnectFails(c)
  \/ WsConnectionEnds(c)
  \/ WsAfterRunForever(c)
  \/ BackoffElapses(c)
  \/ WsBackoffOver(c)

\* The two clients share no state: each is followed with the other one idle.
Alone(c) ==
  \A o \in Clients \ {c} : ws[o] = WsClientInit /\ old_loop[o] = NoLoop

\* join(timeout=3.0) of disconnect() (seconds).
JoinTimeout == 3

LoopAlive(thread) == thread \notin {"none", "exited"}

\* connect() after a disconnect() whose join gave up: the loop thread of the
\* earlier connect() is in a sleep longer than the join waits. connect()
\* reads _is_running only, sets it and starts another thread.
ConnectWhileLoopAlive(c) ==
  /\ ~ws[c].is_running
  /\ ws[c].thread = "sleep"
  /\ ~ws[c].slept
  /\ ws[c].delay > JoinTimeout
  /\ ~LoopAlive(old_loop[c].thread)
  /\ old_loop' = [old_loop EXCEPT ![c] =
                    [thread |-> ws[c].thread, delay |-> ws[c].delay,
                     slept |-> ws[c].slept]]
  /\ ws' = [ws EXCEPT ![c] = [ConnectClient(ws[c]) EXCEPT
                                !.delay = 0, !.slept = FALSE]]
  /\ UNCHANGED <<sent, last_send>>
  /\ UNCHANGED nonws

\* The two loop threads of a client run side by side on the same fields:
\* the thread that makes the next step of _ws_connect_loop is the other one.
Schedule(c) ==
  /\ LoopAlive(old_loop[c].thread)
  /\ old_loop' = [old_loop EXCEPT ![c] =
                    [thread |-> ws[c].thread, delay |-> ws[c].delay,
                     slept |-> ws[c].slept]]
  /\ ws' = [ws EXCEPT ![c] = [@ EXCEPT !.thread = old_loop[c].thread,
                                       !.delay = old_loop[c].delay,
                                       !.slept = old_loop[c].slept]]
  /\ UNCHANGED <<sent, last_send>>
  /\ UNCHANGED nonws

\* ------------------------------------------------------------ outbound sends
SendOps == {"send_status", "update_status_simple", "send_notification"}

\* The send without the test of the connection flag.
XsoSendUnchecked(x, socket_ok) ==
  [transmitted |-> socket_ok, ret |-> socket_ok]

\* send_status, update_status_simple, send_notification: the test of
\* _is_connected, then _send_data; an exception of _ws.send (socket_ok false)
\* or the RuntimeError of _send_data is caught and turned into False.
XsoSend(x, socket_ok) ==
  IF ~x.is_connected THEN [transmitted |-> FALSE, ret |-> FALSE]
  ELSE [transmitted |-> socket_ok, ret |-> socket_ok]

\* What _ws.send can do at this step.
SocketOutcomes == IF sent < MaxSent THEN BOOLEAN ELSE {FALSE}

\* XSOClient.send_status / update_status_simple / send_notification
Send(op) ==
  /\ \E socket_ok \in SocketOutcomes :
       LET r == XsoSend(ws["xso"], socket_ok)
       IN /\ sent' = IF r.transmitted THEN sent + 1 ELSE sent
          /\ last_send' = [op |-> op, connected |-> ws["xso"].is_connected,
                           ret |-> r.ret]
  /\ UNCHANGED <<ws, old_loop>>
  /\ UNCHANGED nonws

\* ------------------------------------------------------- media key router
KeyKinds == {"play_pause", "next", "previous"}

\* A key event and what its handler has done so far. muted0: is_muted when
\* the event arrived; switch_calls, unmute_calls, toggle_calls: its calls of
\* next_profile or previous_profile, set_mute(False), toggle_mute;
\* switch_ret, terminal_ret: what next_profile or
\* previous_profile, and the last session operation of the handler, returned;
\* observers: calls of _update_tray_status, the observer main.py hands to
\* YukaconeClient and to MediaKeyController alike; router_observers: those of
\* them made by the handler itself (self.on_status_change()); pushed: the
\* arguments of its xso.send_status call, the index of the profile and
\* is_muted.
KeyEvent(kind, pc) ==
  [kind |-> kind, pc |-> pc, muted0 |-> is_muted,
   switch_calls |-> IF kind = "play_pause" THEN 0 ELSE 1, switch_ret |-> FALSE,
   unmute_calls |-> 0, toggle_calls |-> IF kind = "play_pause" THEN 1 ELSE 0,
   terminal_ret |-> FALSE, pushes |-> 0, observers |-> 0,
   router_observers |-> 0, pushed |-> None]

NoKey ==
  [kind |-> "none", pc |-> "none", muted0 |-> FALSE,
   switch_calls |-> 0, switch_ret |-> FALSE,
   unmute_calls |-> 0, toggle_calls |-> 0, terminal_ret |-> FALSE,
   pushes |-> 0, observers |-> 0, router_observers |-> 0, pushed |-> None]

MKInit ==
  /\ mk_running = FALSE
  /\ key_event = None
  /\ last_key = NoKey

\* The handler that unmutes whatever the profile switch returned.
UnmuteAlways(success) == TRUE

\* _handle_next, _handle_previous: if success
UnmuteAfterSwitch(success) == success

\* The handler that pushes and notifies whatever toggle_mute returned.
PushAfterToggleAlways(success) == TRUE

\* _handle_play_pause: if success
PushAfterToggle(success) == success

\* The handler that notifies only after a push that returned success.
ObserverAfterPushOnSuccess(push_ret) == push_ret

\* the handlers: self.on_status_change() follows xso.send_status, whose
\* return value is not read
ObserverAfterPush(push_ret) == TRUE

\* The push that carries is_muted as it was when the key arrived.
PushedMutedStale(muted, muted0) == muted0

\* the handlers: xso.send_status(profile, self.yukacone.is_muted)
PushedMuted(muted, muted0) == muted

\* MediaKeyController.stop, on self._is_running
MkStopState(running) == IF ~running THEN running ELSE FALSE

\* MediaKeyController.stop
MkStop ==
  /\ mk_running' = MkStopState(mk_running)
  /\ UNCHANGED <<key_event, last_key>>
  /\ UNCHANGED <<tlvars, ycvars, lkvars, wsvars, appvars>>

\* MediaKeyController.start
MkStart ==
  /\ mk_running' = TRUE
  /\ UNCHANGED <<key_event, last_key>>
  /\ UNCHANGED <<tlvars, ycvars, lkvars, wsvars, appvars>>

\* _on_key_press: the handler's first call, next_profile, previous_profile or
\* toggle_mute, up to the lock
KeyPress(kind) ==
  /\ mk_running
  /\ key_event = None
  /\ call["listener"] = None
  /\ IF kind = "play_pause"
     THEN /\ call' = [call EXCEPT !["listener"] =
                        Some([op |-> "set_mute", via |-> "toggle",
                              arg |-> ~is_muted, read |-> None])]
          /\ UNCHANGED <<last_op, streak>>
          /\ key_event' = Some(KeyEvent(kind, "toggle"))
     ELSE /\ EnterSetTranslationProfile(
               "listener",
               IF kind = "next"
               THEN NextIndex(current_profile_index, Len(translation_profiles))
               ELSE PreviousIndex(current_profile_index, Len(translation_profiles)),
               IF kind = "next" THEN "next" ELSE "prev",
               Some(current_profile_index))
          /\ key_event' = Some(KeyEvent(kind, "switch"))
  /\ UNCHANGED <<translation_profiles, current_profile_index, is_muted,
                 last_recognition_language>>
  /\ UNCHANGED <<mk_running, last_key>>
  /\ UNCHANGED <<tlvars, lkvars, wsvars, appvars>>

\* _handle_next, _handle_previous: next_profile / previous_profile has
\* returned; if success: self.yukacone.set_mute(False), up to the lock
KeyAfterSwitch ==
  /\ key_event # None
  /\ key_event[1].pc = "switch"
  /\ call["listener"] = None
  /\ LET k == [key_event[1] EXCEPT !.switch_ret = last_op.ret,
                             !.terminal_ret = last_op.ret,
                             !.observers = @ + last_op.observer]
     IN IF UnmuteAfterSwitch(last_op.ret)
        THEN /\ call' = [call EXCEPT !["listener"] =
                           Some([op |-> "set_mute", via |-> "direct",
                                 arg |-> FALSE, read |-> None])]
             /\ key_event' = Some([k EXCEPT !.pc = "unmute", !.unmute_calls = @ + 1])
             /\ UNCHANGED last_key
        ELSE /\ key_event' = None
             /\ last_key' = [k EXCEPT !.pc = "done"]
             /\ UNCHANGED call
  /\ UNCHANGED <<translation_profiles, current_profile_index, is_muted,
                 last_recognition_language, last_op, streak>>
  /\ UNCHANGED mk_running
  /\ UNCHANGED <<tlvars, lkvars, wsvars, appvars>>

\* the end of a handler: set_mute(False) has returned (its value is not
\* read), or toggle_mute has returned success or failure; xso.send_status and
\* self.on_status_change()
KeyFinish ==
  /\ key_event # None
  /\ key_event[1].pc \in {"unmute", "toggle"}
  /\ call["listener"] = None
  /\ LET push == key_event[1].pc = "unmute" \/ PushAfterToggle(last_op.ret)
         k == [key_event[1] EXCEPT
                 !.pc = "done",
                 !.terminal_ret = last_op.ret,
                 !.observers = @ + last_op.observer]
     IN /\ key_event' = None
        /\ IF push
           THEN \E socket_ok \in SocketOutcomes :
                  LET r == XsoSend(ws["xso"], socket_ok)
                      n == IF ObserverAfterPush(r.ret) THEN 1 ELSE 0
                  IN /\ sent' = IF r.transmitted THEN sent + 1 ELSE sent
                     /\ last_send' = [op |-> "send_status",
                                      connected |-> ws["xso"].is_connected,
                                      ret |-> r.ret]
                     /\ last_key' =
                          [k EXCEPT
                             !.pushes = @ + 1,
                             !.pushed = Some([index |-> current_profile_index,
                                              muted |-> PushedMuted(is_muted,
                                                                    k.muted0)]),
                             !.observers = @ + n,
                             !.router_observers = @ + n]
           ELSE /\ last_key' = k
                /\ UNCHANGED <<sent, last_send>>
  /\ UNCHANGED <<ws, old_loop, mk_running>>
  /\ UNCHANGED <<tlvars, ycvars, lkvars, appvars>>

\* -------------------------------------------------------------- application
AppInit ==
  /\ app_pc = "setup_clients"
  /\ stop_order = <<>>

\* cleanup that disconnects the clients before it stops the stabilizer.
CleanupOrderClientsFirst == <<"media", "yukacone", "xso", "logger">>

\* YncneoXSOBridge.cleanup: media_controller.stop(), translation_logger
\* .stop(), yukacone_client.disconnect(), xso_client.disconnect()
CleanupOrder == <<"media", "logger", "yukacone", "xso">>

\* The component cleanup stops next.
NextToStop ==
  IF app_pc = "cleanup" /\ Len(stop_order) < Len(CleanupOrder)
  THEN CleanupOrder[Len(stop_order) + 1]
  ELSE "none"

\* main: setup_clients. Both clients are connected, the stabilizer started.
SetupClients ==
  /\ app_pc = "setup_clients"
  /\ app_pc' = "setup_media_controller"
  /\ ws' = [c \in Clients |-> ConnectClient(ws[c])]
  /\ StartCall
  /\ UNCHANGED <<old_loop, sent, last_send, stop_order>>
  /\ UNCHANGED <<ycvars, lkvars, mkvars>>

\* main: setup_media_controller. initialize(), which follows, calls the
\* session controller and the outbound client and touches nothing that
\* cleanup reads: the application goes on to run().
SetupMediaController ==
  /\ app_pc = "setup_media_controller"
  /\ app_pc' = "run"
  /\ mk_running' = TRUE
  /\ UNCHANGED <<key_event, last_key, stop_order>>
  /\ UNCHANGED <<tlvars, ycvars, lkvars, wsvars>>

\* cleanup is called (signal handler, tray menu, end of run)
CleanupBegin ==
  /\ app_pc = "run"
  /\ app_pc' = "cleanup"
  /\ UNCHANGED stop_order
  /\ UNCHANGED <<tlvars, ycvars, lkvars, wsvars, mkvars>>

\* cleanup: self.media_controller.stop()
CleanupStopMedia ==
  /\ NextToStop = "media"
  /\ mk_running' = MkStopState(mk_running)
  /\ stop_order' = Append(stop_order, "media")
  /\ UNCHANGED <<key_event, last_key, app_pc>>
  /\ UNCHANGED <<tlvars, ycvars, lkvars, wsvars>>

\* cleanup: self.translation_logger.stop(), up to the join
CleanupStopLogger ==
  /\ NextToStop = "logger"
  /\ StopCall
  /\ stop_order' = IF tl_thread = "none" THEN Append(stop_order, "logger")
                   ELSE stop_order
  /\ UNCHANGED app_pc
  /\ UNCHANGED <<ycvars, lkvars, wsvars, mkvars>>

\* cleanup: self.translation_logger.stop(), after the join
CleanupLoggerJoined ==
  /\ NextToStop = "logger"
  /\ StopJoined
  /\ stop_order' = Append(stop_order, "logger")
  /\ UNCHANGED app_pc
  /\ UNCHANGED <<ycvars, lkvars, wsvars, mkvars>>

\* cleanup: self.yukacone_client.disconnect(), self.xso_client.disconnect()
CleanupDisconnect(c) ==
  /\ NextToStop = c
  /\ ws' = [ws EXCEPT ![c] = DisconnectClient(ws[c])]
  /\ stop_order' = Append(stop_order, c)
  /\ UNCHANGED <<old_loop, sent, last_send, app_pc>>
  /\ UNCHANGED <<tlvars, ycvars, lkvars, mkvars>>

\* cleanup: self.tray.stop(), sys.exit(0)
CleanupExit ==
  /\ app_pc = "cleanup"
  /\ Len(stop_order) = Len(CleanupOrder)
  /\ app_pc' = "exit"
  /\ UNCHANGED stop_order
  /\ UNCHANGED <<tlvars, ycvars, lkvars, wsvars, mkvars>>

\* A frame arrives on the streaming connection, which the application has
\* connected and not yet disconnected.
AppOnWsMessage(m) ==
  /\ ws["yukacone"].is_running
  /\ OnWsMessage(m)

AppNext ==
  \/ SetupClients
  \/ SetupMediaController
  \/ CleanupBegin
  \/ CleanupStopMedia
  \/ CleanupStopLogger
  \/ CleanupLoggerJoined
  \/ \E c \in Clients : CleanupDisconnect(c)
  \/ CleanupExit
  \/ Tick
  \/ LoopTest
  \/ PeriodicCheck
  \/ \E m \in Messages : AppOnWsMessage(m)
  \/ IngestApply

\* ---------------------------------------------------------- specifications
vars == <<tlvars, ycvars, lkvars, wsvars, mkvars, appvars>>

\* The profile list of the example configuration (yukacone_client.py:302).
ExampleProfiles == <<Some("ja"), Some("ja")>>

\* The stabilizer.
\* The objects whose operations a specification does not follow stay as
\* constructed.
Init == TLInit /\ YCInitWith(ExampleProfiles) /\ LKInit /\ WSInit /\ MKInit /\ AppInit

Next == TLNext

Spec == Init /\ [][Next]_vars

\* The session controller called from the key listener, one call after the
\* other, for every configured profile list.
SessionInit ==
  /\ TLInit /\ LKInit /\ WSInit /\ MKInit /\ AppInit
  /\ \E profiles \in ProfileLists : YCInitWith(profiles)

SessionNext == YCNext({"listener"})

SessionSpec == SessionInit /\ [][SessionNext]_vars

\* The stabilizer with its threads scheduled: time passes, the checker thread
\* and a call waiting for the lock or for the join make their next step.
FairSpec ==
  /\ Init /\ [][Next]_vars
  /\ WF_vars(Tick)
  /\ WF_vars(LoopTest)
  /\ WF_vars(PeriodicCheck)
  /\ WF_vars(IngestApply)
  /\ WF_vars(StopFlush)

\* The session controller called from two threads, followed through its
\* lock, for the profile lists of two entries.
LockInit ==
  /\ TLInit /\ LKInit /\ WSInit /\ MKInit /\ AppInit
  /\ \E profiles \in ProfileLists : Len(profiles) = 2 /\ YCInitWith(profiles)

LockSpec == LockInit /\ [][LockNext(Callers)]_vars

\* One reconnecting client at a time, XSOClient or YukaconeClient.
ReconnectNext == \E c \in Clients : Alone(c) /\ WsNext(c)

ReconnectSpec == Init /\ [][ReconnectNext]_vars

\* The reconnecting client with its loop thread scheduled, its connect
\* attempts ending one way or the other and its sleeps running out.
ReconnectFairSpec ==
  /\ Init /\ [][ReconnectNext]_vars
  /\ \A c \in Clients :
       /\ WF_vars(WsLoopTest(c))
       /\ WF_vars(WsRunForever(c))
       /\ WF_vars(WsOpen(c) \/ WsConnectFails(c))
       /\ WF_vars(WsAfterRunForever(c))
       /\ WF_vars(BackoffElapses(c))
       /\ WF_vars(WsBackoffOver(c))

\* The outbound client: its connection loop and its send operations.
OutboundNext == WsNext("xso") \/ \E op \in SendOps : Send(op)

OutboundSpec == Init /\ [][OutboundNext]_vars

\* The outbound client as the key listener finds it: not connected, or
\* inside an opened connection.
XsoIdleOrOpen ==
  {WsClientInit,
   [WsClientInit EXCEPT !.is_running = TRUE, !.thread = "open",
                        !.is_connected = TRUE]}

KeyPushInit ==
  /\ TLInit /\ LKInit /\ MKInit /\ AppInit
  /\ \E x \in XsoIdleOrOpen : ws = [c \in Clients |->
                                      IF c = "xso" THEN x ELSE WsClientInit]
  /\ old_loop = [c \in Clients |-> NoLoop]
  /\ sent = 0
  /\ last_send = [op |-> "none", connected |-> FALSE, ret |-> FALSE]
  /\ \E profiles \in ProfileLists : YCInitWith(profiles)

\* The key listener: key events handled one after the other.
KeyNext ==
  \/ MkStart
  \/ \E kind \in KeyKinds : KeyPress(kind)
  \/ SetTranslationProfileBody("listener")
  \/ SetMuteBody("listener")
  \/ KeyAfterSwitch
  \/ KeyFinish

KeySpec == SessionInit /\ [][KeyNext]_vars

\* The key listener with the outbound client connected or not.
KeyPushSpec == KeyPushInit /\ [][KeyNext]_vars

\* The application from main() to the end of cleanup, with frames arriving.
AppSpec == Init /\ [][AppNext]_vars

\* One reconnecting client with connect() called again while the loop thread
\* of the earlier connect() sleeps.
RestartNext ==
  \E c \in Clients :
    Alone(c) /\ (WsNext(c) \/ ConnectWhileLoopAlive(c) \/ Schedule(c))

RestartSpec == Init /\ [][RestartNext]_vars

\* Both reconnecting clients side by side.
PairNext == \E c \in Clients : WsNext(c)

PairSpec == Init /\ [][PairNext]_vars

\* nextProfile, previousProfile and toggleMute called from two threads,
\* followed through the lock.
RaceNext ==
  \/ \E t \in Callers : NextProfile(t)
  \/ \E t \in Callers : PreviousProfile(t)
  \/ \E t \in Callers : ToggleMute(t)
  \/ \E t \in Callers : AcquireLock(t)
  \/ \E t \in Callers : RecCallReturns(t)
  \/ \E t \in Callers : TransCallReturns(t)
  \/ \E t \in Callers : MuteCallReturns(t)

RaceSpec == SessionInit /\ [][RaceNext]_vars

\* Start and stop of each component on its own, the others as constructed:
\* the stabilizer, one reconnecting client, the key router.
StopNext ==
  \/ (WSInit /\ MKInit /\ TLNext)
  \/ (TLInit /\ MKInit /\ ReconnectNext)
  \/ (TLInit /\ WSInit /\ MkStart)
  \/ (TLInit /\ WSInit /\ MkStop)

StopSpec == Init /\ [][StopNext]_vars

\* ------------------------------------------------------------------ claims
\* The record and what the observer could read when it was handed over.
Emitted(data, id) ==
  [data |-> data, seen_id |-> id, seen_appends |-> Len(logged) + 1]

\* C1: the finalized records (observer calls; log lines, counting an append
\* that failed) are as many as the runs of consecutive same-id ingest calls
\* ended so far by another id, a timeout flush or a forced flush.
C1_OneRecordPerEndedRun ==
  /\ Len(logged) = ref.ended
  /\ Len(log_file) + log_errors = ref.ended

\* Two calls with different ids made two runs, both ended: two records.
C1_Witness ==
  /\ n_ingest = 2
  /\ ing = None
  /\ ~ref.open
  /\ ref.ended = 2
  /\ Len(logged) = 2
  /\ Len(log_file) = 2
  /\ logged[1].data.MsgID # logged[2].data.MsgID

\* C4: the record finalized for a run carries the payload of the run's last
\* ingest call and nothing of the earlier ones; so does its log line, and so
\* does the pending message while the run is open.
C4_LastWriteWins ==
  /\ logged # <<>> => Some(Last(logged).data) = ref.prev_msg
  /\ current_id # None => last_data = ref.msg
  /\ log_errors = 0 =>
       log_file = [i \in 1..Len(logged) |-> LogLine(logged[i].data)]

\* A run of two calls with differing payloads has been finalized: one
\* record, the second payload.
C4_Witness ==
  /\ n_ingest = 2
  /\ ing = None
  /\ ~ref.open
  /\ ref.ended = 1
  /\ ref.prev_varied
  /\ Len(logged) = 1

\* C5: an ingest with id b while id a is pending finalizes a's record, a's
\* latest payload, while a is still what is pending, and leaves b pending with
\* nothing of b finalized.
C5_IdSwitchFlush ==
  [][(/\ ing # None /\ ing' = None
      /\ current_id # None
      /\ ing[1].msg.MsgID # current_id)
     => /\ last_data = ref.msg
        /\ last_data[1].MsgID = current_id
        /\ logged' = Append(logged, Emitted(last_data[1], current_id))
        /\ current_id' = ing[1].msg.MsgID
        /\ last_data' = Some(ing[1].msg)
        /\ last_update_time' = Some(ing[1].now)]_vars

\* The last run was ended by an id switch and the new id is pending.
C5_Witness ==
  /\ ref.prev_end = "switch"
  /\ ref.open
  /\ current_id = ref.id
  /\ logged # <<>>
  /\ Last(logged).data.MsgID # current_id

CheckerRunning == tl_thread \in {"test", "sleep"} /\ ~tl_stop

\* C6: a stability check finalizes the pending message only when StableSec
\* has passed since its last ingest, finalizes it once and leaves nothing
\* pending; with nothing pending no step finalizes anything; and while the
\* checker runs a pending message does not stay pending for ever.
C6_TimeoutFlush ==
  /\ [][(tl_thread = "sleep" /\ tl_thread' = "test" /\ logged' # logged)
        => /\ last_update_time # None
           /\ clock - last_update_time[1] >= StableSec
           /\ logged' = Append(logged, Emitted(last_data[1], current_id))
           /\ current_id' = None
           /\ last_data' = None
           /\ last_update_time' = None]_vars
  /\ [][current_id = None => logged' = logged]_vars
  /\ (CheckerRunning /\ current_id # None) ~> (current_id = None \/ ~CheckerRunning)

\* One ingest, no other, finalized by the timeout.
C6_Witness ==
  /\ ref.prev_end = "timeout"
  /\ ref.ended = 1
  /\ current_id = None
  /\ Len(logged) = 1
  /\ n_ingest = 1

\* A frame that is not a JSON object, has no MessageID or has fewer than two
\* textList entries.
Malformed(m) ==
  \/ m.kind # "object"
  \/ m.data.MessageID = None
  \/ Len(m.data.textList) < 2

\* C7: the delivery of a malformed frame leaves the pending message, the call
\* waiting for the lock, the log and the observer's records as they were.
C7_MalformedInert ==
  [][\A m \in Messages :
       (Malformed(m) /\ OnWsMessage(m))
       => /\ frame_dropped' = TRUE
          /\ UNCHANGED <<current_id, last_data, last_update_time, ing,
                         log_file, log_errors, logged, n_ingest, ref>>]_vars

\* A frame was dropped while a message was pending.
C7_Witness ==
  /\ frame_dropped
  /\ current_id # None
  /\ ing = None
  /\ logged = <<>>

\* A call of operation op returns at this step.
Returns(op) ==
  /\ last_op'.op = op
  /\ \/ \E t \in Callers : call[t] # None /\ call'[t] = None
     \/ (call' = call /\ last_op' # last_op)

Failed(outcome) == outcome \notin {"none", "ok"}

\* C2: a setProfile one of whose control calls failed returns failure, leaves
\* the profile index as it was and does not call the observer.
C2_FailedProfileCallRejected ==
  [][(Returns("set_profile") /\ (Failed(last_op'.rec) \/ Failed(last_op'.trans)))
     => /\ last_op'.ret = FALSE
        /\ current_profile_index' = current_profile_index
        /\ last_op'.observer = 0]_vars

\* C3: a setMute(b) whose control call failed returns failure, leaves is_muted
\* as it was and does not call the observer; one whose call succeeded sets
\* is_muted to b and calls the observer.
C3_MuteCallOutcome ==
  [][Returns("set_mute")
     => IF Failed(last_op'.trans)
        THEN /\ last_op'.ret = FALSE
             /\ is_muted' = is_muted
             /\ last_op'.observer = 0
        ELSE /\ is_muted' = last_op'.arg
             /\ last_op'.observer = 1]_vars

\* C8: the profile index is an index of the profile list.
C8_IndexInRange ==
  /\ 0 <= current_profile_index
  /\ current_profile_index < Len(translation_profiles)

\* setProfile(-1) has been rejected and the index is the last one.
C8_Witness ==
  /\ last_op.op = "set_profile"
  /\ last_op.via = "direct"
  /\ last_op.arg = -1
  /\ ~last_op.ret
  /\ Len(translation_profiles) >= 2
  /\ current_profile_index = Len(translation_profiles) - 1

\* C9: last_recognition_language changes only at a setProfile whose
\* recognition-language call succeeded.
C9_LanguageOnlyAfterSuccess ==
  [][last_recognition_language' # last_recognition_language
     => last_op'.rec = "ok"]_vars

\* C10: nextProfile and previousProfile always reach the control calls, and
\* when these succeed the index is (index + 1) mod N, (index - 1) mod N of the
\* index the call read; k nextProfile calls in a row from index 0 end at
\* k mod N.
C10_Wraparound ==
  LET n == Len(translation_profiles)
      succeeded == ~Failed(last_op.rec) /\ last_op.trans = "ok"
  IN /\ last_op.via \in {"next", "prev"} => last_op.trans # "none"
     /\ (last_op.via = "next" /\ succeeded)
          => current_profile_index = (last_op.read[1] + 1) % n
     /\ (last_op.via = "prev" /\ succeeded)
          => current_profile_index = (last_op.read[1] - 1) % n
     /\ streak > 0 => current_profile_index = streak % n

\* N nextProfile calls in a row from index 0 are back at index 0.
C10_Witness ==
  /\ Len(translation_profiles) = MaxProfiles
  /\ streak = Len(translation_profiles)
  /\ current_profile_index = 0
  /\ last_op.ret

\* C11: a setProfile(index) with index < 0 or index >= len(profiles) returns
\* failure, makes no control call, does not call the observer and leaves the
\* profile index, is_muted and last_recognition_language as they were.
C11_InvalidIndexRejected ==
  [][(/\ Returns("set_profile")
      /\ last_op'.via = "direct"
      /\ (last_op'.arg < 0 \/ last_op'.arg >= Len(translation_profiles)))
     => /\ last_op'.ret = FALSE
        /\ last_op'.rec = "none"
        /\ last_op'.trans = "none"
        /\ last_op'.observer = 0
        /\ UNCHANGED <<current_profile_index, is_muted,
                       last_recognition_language>>]_vars

\* setProfile(len(profiles)) has been rejected in a session that had switched
\* to profile 1 and unmuted.
C11_Witness ==
  /\ last_op.op = "set_profile"
  /\ last_op.via = "direct"
  /\ last_op.arg = Len(translation_profiles)
  /\ ~last_op.ret
  /\ last_op.observer = 0
  /\ current_profile_index = 1
  /\ ~is_muted
  /\ last_recognition_language # None

InBody == {t \in Callers : body[t] # "out"}

\* C13: at most one thread is inside the locked part of setProfile or setMute,
\* from its first control request to its state write, and it holds the lock:
\* no two control requests are in flight and no other operation writes session
\* state in between.
C13_MutualExclusion ==
  /\ Cardinality(InBody) <= 1
  /\ \A t \in InBody : lock = Some(t)

\* The listener's setProfile has its translation request in flight while the
\* main thread's setMute waits for the lock.
C13_Witness ==
  /\ body["listener"] = "trans_call"
  /\ call["main"] # None
  /\ call["main"][1].op = "set_mute"
  /\ body["main"] = "out"

\* C14: send_status, update_status_simple or send_notification called while
\* _is_connected is false returns False and writes nothing to the socket.
C14_SendWhenDisconnected ==
  [][\A op \in SendOps :
       (Send(op) /\ ~ws["xso"].is_connected)
       => /\ last_send'.ret = FALSE
          /\ last_send'.op = op
          /\ sent' = sent]_vars

\* A notification was refused after the connection, over which one frame had
\* been sent, was lost.
C14_Witness ==
  /\ last_send.op = "send_notification"
  /\ ~last_send.connected
  /\ ~last_send.ret
  /\ sent = 1
  /\ ws["xso"].thread = "sleep"

\* C15: a loop that is in its backoff sleep when disconnect() has cleared the
\* flag can leave the sleep at once, whether or not the delay has elapsed.
C15_StopInterruptsBackoff ==
  \A c \in Clients :
    (ws[c].thread = "sleep" /\ ~ws[c].is_running) => CanLeaveSleep(ws[c])

C17_OneRecordPerId ==
  \A i, j \in 1..Len(logged) :
    logged[i].data.MsgID = logged[j].data.MsgID => i = j

\* C18: a next or previous key event calls next_profile or previous_profile
\* once, set_mute(False) once if that call returned success and not at all
\* otherwise, and never toggle_mute; a play/pause event calls toggle_mute once
\* and nothing else; after a failed profile switch is_muted is what it was
\* when the event arrived.
C18_RouterCalls ==
  /\ last_key.kind \in {"next", "previous"}
       => /\ last_key.switch_calls = 1
          /\ last_key.toggle_calls = 0
          /\ last_key.unmute_calls = IF last_key.switch_ret THEN 1 ELSE 0
  /\ last_key.kind = "play_pause"
       => /\ last_key.switch_calls = 0
          /\ last_key.toggle_calls = 1
          /\ last_key.unmute_calls = 0
  /\ (key_event = None /\ last_key.kind \in {"next", "previous"}
      /\ ~last_key.switch_ret)
       => is_muted = last_key.muted0
  /\ key_event # None =>
       /\ key_event[1].pc = "unmute" => key_event[1].switch_ret
       /\ (key_event[1].pc = "unmute" /\ call["listener"] # None)
            => /\ call["listener"][1].op = "set_mute"
               /\ call["listener"][1].arg = FALSE
       /\ (key_event[1].pc = "switch" /\ call["listener"] # None)
            => call["listener"][1].via =
                 (IF key_event[1].kind = "next" THEN "next" ELSE "prev")
       /\ (key_event[1].pc = "toggle" /\ call["listener"] # None)
            => call["listener"][1].via = "toggle"

\* A previous key arrived while unmuted, its profile switch returned failure:
\* no set_mute, still unmuted.
C18_Witness ==
  /\ key_event = None
  /\ last_key.kind = "previous"
  /\ ~last_key.switch_ret
  /\ last_key.unmute_calls = 0
  /\ ~last_key.muted0
  /\ ~is_muted

\* C19: a key event whose last session operation returned success has pushed
\* the status to the outbound client once and called the observer once.
C19_ObserverOncePerKey ==
  (last_key.pc = "done" /\ last_key.terminal_ret)
    => /\ last_key.pushes = 1
       /\ last_key.observers = 1

\* s is the beginning of t.
IsPrefix(s, t) ==
  /\ Len(s) <= Len(t)
  /\ \A i \in 1..Len(s) : s[i] = t[i]

\* C20: cleanup stops the key router, then the stabilizer, then the streaming
\* client, then the outbound client; the stop of the stabilizer flushes the
\* pending message; and no component is stopped while an earlier one is not.
C20_ShutdownOrder ==
  /\ [](IsPrefix(stop_order, <<"media", "logger", "yukacone", "xso">>))
  /\ [](app_pc \in {"cleanup", "exit"} =>
          /\ ~ws["xso"].is_running => ~ws["yukacone"].is_running
          /\ ~ws["yukacone"].is_running => (tl_stop /\ stop_pc = "idle")
          /\ tl_stop => ~mk_running)
  /\ [][(stop_order' # stop_order /\ Last(stop_order') = "logger")
        => /\ current_id' = None
           /\ last_data' = None
           /\ current_id # None
                => logged' = Append(logged, Emitted(last_data[1], current_id))]_vars

\* cleanup has run to its end and the stop of the stabilizer flushed a
\* pending message.
C20_Witness ==
  /\ app_pc = "exit"
  /\ stop_order = <<"media", "logger", "yukacone", "xso">>
  /\ ref.prev_end = "forced"
  /\ Len(logged) = 1

\* The fields of the stabilizer a flush can write.
flushed == <<current_id, last_data, last_update_time, logged, log_file, log_errors>>

\* C21: stop() and disconnect() are idempotent on the stabilizer, on both
\* reconnecting clients and on the key router: in every state a second call
\* leaves what the first one left, no further record and no further line
\* included; and the connection loop that tests the flag of a stopped client,
\* before or after an attempt, ends without another attempt.
C21_StopIdempotent ==
  /\ [](\A w1 \in AllFlushOutcomes : \A w2 \in AllFlushOutcomes :
          StopResult(StopResult(TL, tl_thread, w1), tl_thread, w2)
            = StopResult(TL, tl_thread, w1))
  /\ [](\A c \in Clients :
          DisconnectClient(DisconnectClient(ws[c])) = DisconnectClient(ws[c]))
  /\ [](MkStopState(MkStopState(mk_running)) = MkStopState(mk_running))
  /\ [][\A c \in Clients :
          ~ws'[c].is_running
            => (ws[c].thread \in {"test", "ended"}
                  => ws'[c].thread \in {ws[c].thread, "exited"})]_vars
  /\ [][(stop_pc = "join" /\ stop_pc' = "idle" /\ last_data = None)
          => UNCHANGED flushed]_vars

\* stop() has run to its end on a started stabilizer and flushed the pending
\* message; stop() is under way once more.
C21_Witness ==
  /\ tl_stop
  /\ tl_thread = "exited"
  /\ stop_pc = "join"
  /\ ref.prev_end = "forced"
  /\ Len(logged) = 1
  /\ current_id = None
  /\ n_ingest = 1
  /\ ing = None

\* C22: in every state flush_now() and stop() emit the pending message once
\* and leave nothing pending, the state where the checker thread was never
\* started included.
C22_ForcedFlushEmitsPending ==
  \A outcome \in AllFlushOutcomes :
    LET after == IF last_data = None THEN logged
                 ELSE Append(logged, Emitted(last_data[1], current_id))
        f == FlushLocked(TL, outcome)
        s == StopResult(TL, tl_thread, outcome)
    IN /\ f.current_id = None /\ f.last_data = None /\ f.logged = after
       /\ s.current_id = None /\ s.last_data = None /\ s.logged = after

\* C23: a step of one reconnecting client (a failed connect, an opened
\* connection, a backoff, a stop) leaves every field of the other client as
\* it was.
C23_ClientsIndependent ==
  [][\A c \in Clients :
       WsNext(c) => \A o \in Clients \ {c} : ws'[o] = ws[o]]_vars

\* The outbound client backs off after two failures while the connection of
\* the streaming client is open with its counter at 0.
C23_Witness ==
  /\ ws["xso"].thread = "sleep"
  /\ ws["xso"].reconnect_attempts = 2
  /\ ws["yukacone"].thread = "open"
  /\ ws["yukacone"].is_running
  /\ ws["yukacone"].reconnect_attempts = 0

\* C24: a setProfile whose recognition-language call failed has not issued
\* the translation-parameter call.
C24_AbortAfterFailedRecognitionCall ==
  [][(Returns("set_profile") /\ Failed(last_op'.rec))
       => last_op'.trans = "none"]_vars

\* C25: under the lock setProfile(index) issues the recognition-language
\* call first exactly when the language of profiles[index] differs from
\* last_recognition_language, the translation-parameter call follows it, and
\* with an equal language the translation-parameter call is the only one.
C25_CallOrder ==
  /\ [][\A t \in Callers :
          (body[t] = "out" /\ body'[t] # "out" /\ call[t][1].op = "set_profile")
            => /\ body'[t] \in {"rec_call", "trans_call"}
               /\ body'[t] = "rec_call"
                    <=> PyItem(translation_profiles, call[t][1].arg)
                          # last_recognition_language]_vars
  /\ [][\A t \in Callers :
          (body[t] = "rec_call" /\ body'[t] # "rec_call")
            => body'[t] = "trans_call"]_vars
  /\ [][\A t \in Callers :
          (body[t] = "trans_call" /\ body'[t] # "trans_call")
            => body'[t] = "out"]_vars

\* A setProfile to a profile of another language than the last one pushed
\* is at its recognition-language call.
C25_Witness ==
  /\ body["listener"] = "rec_call"
  /\ call["listener"][1].op = "set_profile"
  /\ last_recognition_language # None
  /\ PyItem(translation_profiles, call["listener"][1].arg)
       # last_recognition_language

\* C26: a nextProfile (previousProfile) that completes leaves the index one
\* above (below), modulo the number of profiles, the index it found when it
\* held the lock: of k calls none is lost.
C26_NextProfileNoLostUpdate ==
  [][\A t \in Callers :
       (body[t] = "trans_call" /\ body'[t] = "out")
         => /\ call[t][1].via = "next"
                 => current_profile_index'
                      = NextIndex(current_profile_index, Len(translation_profiles))
            /\ call[t][1].via = "prev"
                 => current_profile_index'
                      = PreviousIndex(current_profile_index,
                                      Len(translation_profiles))]_vars

\* C27: a toggleMute that completes leaves is_muted the negation of the value
\* it found when it held the lock: two of them restore the original value.
C27_ToggleNegatesSerializedValue ==
  [][\A t \in Callers :
       (body[t] = "mute_call" /\ body'[t] = "out" /\ call[t][1].via = "toggle")
         => is_muted' = ~is_muted]_vars

\* C28: a periodic check that runs less than StableSec after the last update
\* of the pending message leaves the message pending and emits nothing.
C28_NoEarlyFlush ==
  [][(tl_thread = "sleep" /\ tl_thread' = "test"
      /\ ref.open /\ clock - ref.last < StableSec)
       => UNCHANGED flushed]_vars

\* Two updates of one id, the second at time 1; the checker thread is back at
\* its loop test at time 1 and the message is still pending, nothing emitted.
C28_Witness ==
  /\ n_ingest = 2
  /\ ing = None
  /\ ref.open
  /\ ref.varied
  /\ ref.last = 1
  /\ clock = 1
  /\ tl_thread = "test"
  /\ ~tl_stop
  /\ logged = <<>>
  /\ current_id # None

\* C29: with nothing pending, flush_now(), stop() and the periodic check
\* change nothing: no line, no observer call, the pending state stays empty.
C29_EmptyFlushNoOp ==
  /\ [](last_data = None =>
          \A outcome \in AllFlushOutcomes :
            /\ FlushLocked(TL, outcome) = TL
            /\ StopResult(TL, tl_thread, outcome) = TL
            /\ StabilityCheck(TL, clock, outcome) = TL)
  /\ [][(last_data = None /\ ~(ing # None /\ ing' = None))
          => UNCHANGED flushed]_vars

\* stop() has run to its end on a started stabilizer that never held a
\* message: nothing written, nothing emitted.
C29_Witness ==
  /\ tl_stop
  /\ stop_pc = "idle"
  /\ n_ingest = 0
  /\ logged = <<>>
  /\ log_file = <<>>
  /\ log_errors = 0
  /\ current_id = None

\* C30: when the observer is called with the i-th record the i-th append to
\* the log file has been attempted and the pending state still holds the
\* record's id; after the flush the pending fields are cleared together.
C30_FlushOrder ==
  /\ \A i \in 1..Len(logged) :
       /\ logged[i].seen_appends = i
       /\ logged[i].seen_id # None
       /\ logged[i].seen_id = logged[i].data.MsgID
  /\ Len(logged) = Len(log_file) + log_errors
  /\ current_id = None <=> last_data = None
  /\ current_id = None <=> last_update_time = None

\* Two flushes, the append of one of them failed: the observer was called
\* for both.
C30_Witness ==
  /\ Len(logged) = 2
  /\ Len(log_file) = 1
  /\ log_errors = 1
  /\ current_id = None

\* C34: of the loop threads a client has started at most one is alive.
C34_OneConnectionLoop ==
  \A c \in Clients :
    ~(LoopAlive(ws[c].thread) /\ LoopAlive(old_loop[c].thread))

\* C35: the connection loop creates a socket and begins run_forever() only
\* while is_running is set: once disconnect() has cleared the flag no new
\* connection is opened.
C35_NoConnectionAfterStop ==
  [][\A c \in Clients :
       (ws[c].thread = "create" /\ ws'[c].thread = "connecting")
         => ws[c].is_running]_vars

\* C40: while the connection loop of the outbound client is in its backoff
\* sleep or has ended, _is_connected is false, and a send made then returns
\* failure and writes nothing to the socket.
C40_ConnectedOnlyWhileOpen ==
  /\ [](ws["xso"].thread \in {"sleep", "exited"} => ~ws["xso"].is_connected)
  /\ [][(last_send' # last_send /\ ws["xso"].thread \in {"sleep", "exited"})
          => /\ ~last_send'.ret
             /\ ~last_send'.connected
             /\ sent' = sent]_vars

\* A frame was sent over the open connection; the connection was lost and a
\* send_status made during the backoff sleep returned failure.
C40_Witness ==
  /\ ws["xso"].thread = "sleep"
  /\ ws["xso"].is_running
  /\ sent = 1
  /\ last_send.op = "send_status"
  /\ ~last_send.connected
  /\ ~last_send.ret

\* C36: when cleanup has run to its end and no ingest call is under way, the
\* stabilizer holds no pending message: what the streaming client delivered
\* has been emitted.
C36_NothingPendingAfterShutdown ==
  (app_pc = "exit" /\ ing = None)
    => /\ current_id = None
       /\ last_data = None

\* C37: a setProfile or setMute that leaves its with block, by either
\* return, leaves the lock free; the lock is held only by a thread that is
\* inside the block, so a call that waits while no thread is inside can take
\* it.
C37_LockReleased ==
  /\ [][\A t \in Callers :
          (body[t] # "out" /\ body'[t] = "out") => lock' = None]_vars
  /\ [](lock # None => body[lock[1]] # "out")
  /\ [](\A t \in Callers :
          (call[t] # None /\ InBody = {}) => ENABLED AcquireLock(t))

\* The listener's setMute has returned and left the lock free while the
\* setProfile of the main thread waits for it.
C37_Witness ==
  /\ lock = None
  /\ call["listener"] = None
  /\ is_muted = FALSE
  /\ call["main"] # None
  /\ call["main"][1].op = "set_profile"
  /\ body["main"] = "out"

\* The first session operation of the key event k returned failure.
FirstOperationFailed(k) ==
  \/ k.kind = "play_pause" /\ ~k.terminal_ret
  \/ k.kind \in {"next", "previous"} /\ ~k.switch_ret

\* C31: a key event whose toggle_mute, next_profile or previous_profile
\* returned failure has pushed nothing to the outbound client and has not
\* called the router's observer; its end leaves the outbound client alone.
C31_FailedKeyPushesNothing ==
  /\ []((last_key.pc = "done" /\ FirstOperationFailed(last_key))
          => /\ last_key.pushes = 0
             /\ last_key.pushed = None
             /\ last_key.router_observers = 0)
  /\ [][(key_event # None /\ key_event' = None /\ FirstOperationFailed(last_key'))
          => UNCHANGED <<sent, last_send, ws>>]_vars

\* A play/pause key whose toggle_mute returned failure, with the outbound
\* client connected: nothing pushed, the observer not called.
C31_Witness ==
  /\ last_key.pc = "done"
  /\ last_key.kind = "play_pause"
  /\ last_key.toggle_calls = 1
  /\ ~last_key.terminal_ret
  /\ last_key.pushes = 0
  /\ ws["xso"].is_connected
  /\ sent = 0

\* C32: the end of a key handler whose push returned failure has called
\* send_status once, writes nothing to the socket, leaves profile index and
\* is_muted as the session operations set them and calls the router's
\* observer once.
C32_PushBestEffort ==
  /\ [][(key_event # None /\ key_event' = None
          /\ last_key'.pushes > 0 /\ ~last_send'.ret)
          => /\ last_key'.pushes = 1
             /\ last_key'.router_observers = 1
             /\ sent' = sent
             /\ UNCHANGED <<current_profile_index, is_muted>>]_vars
  /\ []((key_event = None /\ last_key.kind = "play_pause" /\ last_key.pushes = 1)
          => is_muted = ~last_key.muted0)

\* A play/pause key toggled the mute flag; its push found the outbound client
\* not connected and returned failure; the observer was called.
C32_Witness ==
  /\ key_event = None
  /\ last_key.pc = "done"
  /\ last_key.kind = "play_pause"
  /\ last_key.pushes = 1
  /\ last_send.op = "send_status"
  /\ ~last_send.connected
  /\ ~last_send.ret
  /\ last_key.router_observers = 1
  /\ is_muted = ~last_key.muted0

C38_FlushClearsOnError ==
  /\ [](last_data # None =>
          \A outcome \in AllFlushOutcomes :
            LET f == FlushLocked(TL, outcome)
            IN /\ f.current_id = None
               /\ f.last_data = None
               /\ f.last_update_time = None
               /\ f.logged = Append(logged, Emitted(last_data[1], current_id))
               /\ ~outcome.wr_ok => /\ f.log_file = log_file
                                    /\ f.log_errors = log_errors + 1)
  /\ [][log_errors' # log_errors
          => /\ log_file' = log_file
             /\ logged' = Append(logged, Emitted(last_data[1], current_id))
             /\ last_data' # last_data]_vars
  /\ [][log_file' # log_file
          => log_file' = Append(log_file, LogLine(last_data[1]))]_vars

\* The append of the first record failed; the observer has both records, the
\* file holds the line of the second only.
C38_Witness ==
  /\ log_errors = 1
  /\ Len(logged) = 2
  /\ logged[1].data # logged[2].data
  /\ log_file = <<LogLine(logged[2].data)>>
  /\ logged[2].seen_appends = 2

\* C39: current_id, last_data and last_update_time are None together, and
\* when they are set last_data carries the id stored in current_id.
C39_PendingFieldsConsistent ==
  /\ current_id = None <=> last_data = None
  /\ last_data = None <=> last_update_time = None
  /\ last_data # None => last_data[1].MsgID = current_id

\* A message became pending after an earlier one was emitted.
C39_Witness ==
  /\ Len(logged) = 1
  /\ current_id # None
  /\ last_data # None
  /\ last_update_time # None
  /\ last_data[1].MsgID = current_id
  /\ ing = None

====
